---------------------------- MODULE Spec2Model ----------------------------
(***************************************************************************)
(* Model of src/utils/hasReturnValue.js (eslint-plugin-jsdoc).             *)
(*                                                                         *)
(* The program is a family of pure recursive traversals over an ESTree     *)
(* syntax tree.  A tree node is a record whose "type" field is the ESTree  *)
(* node type; an absent child (null / undefined in JavaScript) is the      *)
(* record Null.  A JavaScript result is one of the strings "true",         *)
(* "false" (any falsy value), "Null return" (the Error thrown by           *)
(* hasReturnValue in escalation mode, propagating to the caller) or        *)
(* "TypeError" (a property read of undefined, propagating likewise).       *)
(***************************************************************************)
EXTENDS Naturals, Sequences, FiniteSets

VARIABLES node, depth, call

vars == <<node, depth, call>>

(***************************************************************************)
(* JavaScript values and the short-circuit operators.                      *)
(***************************************************************************)
JsTrue == "true"
JsFalse == "false"
NullReturn == "Null return"
TypeError == "TypeError"
Undefined == "#undefined"

\* the evaluation ended by throwing
Thrown(a) == a \in {NullReturn, TypeError}

\* a || b, evaluated left to right: a thrown error propagates, b is
\* evaluated only when a is falsy.
JsOr(a, b) ==
  IF Thrown(a) THEN a
  ELSE IF a = JsTrue THEN JsTrue
  ELSE b

\* a && b, evaluated left to right.
JsAnd(a, b) ==
  IF Thrown(a) THEN a
  ELSE IF a = JsFalse THEN JsFalse
  ELSE b

JsBool(b) == IF b THEN JsTrue ELSE JsFalse

(***************************************************************************)
(* ESTree nodes.                                                           *)
(***************************************************************************)
Null == [type |-> "null"]

IsNull(n) == n.type = "null"

Identifier(name) == [type |-> "Identifier", name |-> name]

\* value holds the literal's source token: "true" is the boolean literal true.
Literal(value) == [type |-> "Literal", value |-> value]

ReturnStatement(argument) == [type |-> "ReturnStatement", argument |-> argument]

ExpressionStatement(expression) ==
  [type |-> "ExpressionStatement", expression |-> expression]

ThrowStatement(argument) == [type |-> "ThrowStatement", argument |-> argument]

BreakStatement == [type |-> "BreakStatement"]

BlockStatement(body) == [type |-> "BlockStatement", body |-> body]

IfStatement(test, consequent, alternate) ==
  [type |-> "IfStatement", test |-> test, consequent |-> consequent,
   alternate |-> alternate]

ConditionalExpression(test, consequent, alternate) ==
  [type |-> "ConditionalExpression", test |-> test, consequent |-> consequent,
   alternate |-> alternate]

\* WhileStatement and DoWhileStatement
TestLoop(type, test, body) == [type |-> type, test |-> test, body |-> body]

ForStatement(init, test, update, body) ==
  [type |-> "ForStatement", init |-> init, test |-> test, update |-> update,
   body |-> body]

\* ForInStatement and ForOfStatement
ForEachLoop(type, left, right, body) ==
  [type |-> type, left |-> left, right |-> right, body |-> body]

LabeledStatement(body) == [type |-> "LabeledStatement", body |-> body]

WithStatement(object, body) ==
  [type |-> "WithStatement", object |-> object, body |-> body]

CatchClause(body) == [type |-> "CatchClause", body |-> body]

TryStatement(block, handler, finalizer) ==
  [type |-> "TryStatement", block |-> block, handler |-> handler,
   finalizer |-> finalizer]

SwitchCase(test, consequent) ==
  [type |-> "SwitchCase", test |-> test, consequent |-> consequent]

SwitchStatement(discriminant, cases) ==
  [type |-> "SwitchStatement", discriminant |-> discriminant, cases |-> cases]

\* FunctionExpression, FunctionDeclaration and ArrowFunctionExpression;
\* expression is TRUE for an arrow function whose body is an expression.
FunctionLike(type, params, body, expression) ==
  [type |-> type, params |-> params, body |-> body, expression |-> expression]

\* a method without decorators whose key is not computed
MethodDefinition(value) == [type |-> "MethodDefinition", value |-> value]

\* TSDeclareFunction, TSFunctionType and TSMethodSignature; typeAnnotation
\* is the type of the declared return type, Undefined when none is declared
TSSignature(type, typeAnnotation) ==
  [type |-> type, returnType |-> typeAnnotation]

SignatureTypes == {"TSDeclareFunction", "TSFunctionType", "TSMethodSignature"}

CallExpression(callee, arguments) ==
  [type |-> "CallExpression", callee |-> callee, arguments |-> arguments]

\* typeParameter: the type of the first type argument, or Undefined
NewExpression(callee, typeParameter, arguments) ==
  [type |-> "NewExpression", callee |-> callee,
   typeParameter |-> typeParameter, arguments |-> arguments]

MemberExpression(object, property) ==
  [type |-> "MemberExpression", object |-> object, property |-> property]

\* ArrayExpression (its elements), SequenceExpression and TemplateLiteral
\* (their expressions)
ListExpression(type, items) == [type |-> type, items |-> items]

Property(value) ==
  [type |-> "Property", computed |-> FALSE, key |-> Null, value |-> value]

ObjectExpression(properties) ==
  [type |-> "ObjectExpression", properties |-> properties]

\* AssignmentExpression, BinaryExpression and LogicalExpression
BinaryLike(type, left, right) == [type |-> type, left |-> left, right |-> right]

\* AwaitExpression, SpreadElement, UnaryExpression and YieldExpression
UnaryLike(type, argument) == [type |-> type, argument |-> argument]

VariableDeclarator(id, init) ==
  [type |-> "VariableDeclarator", id |-> id, init |-> init]

VariableDeclaration(declarations) ==
  [type |-> "VariableDeclaration", declarations |-> declarations]

FunctionTypes == {"FunctionExpression", "FunctionDeclaration", "ArrowFunctionExpression"}

\* node.name: only an Identifier has a name
NameOf(n) == IF n.type = "Identifier" THEN n.name ELSE Undefined

(***************************************************************************)
(* Deferred-value classifier.                                              *)
(***************************************************************************)
isNewPromiseExpression(n) ==
  /\ ~IsNull(n)
  /\ n.type = "NewExpression"
  /\ n.callee.type = "Identifier"
  /\ n.callee.name = "Promise"

\* faulty variant: the comparison is made with the wrong keyword
isVoidPromise_wrongKeyword(n) ==
  /\ n.type = "NewExpression"
  /\ n.typeParameter = "TSUndefinedKeyword"

isVoidPromise(n) ==
  /\ n.type = "NewExpression"
  /\ n.typeParameter = "TSVoidKeyword"

undefinedKeywords == {"TSVoidKeyword", "TSUndefinedKeyword", "TSNeverKeyword"}

\* const type = node?.returnType?.typeAnnotation?.type;
\* return type && !undefinedKeywords.has(type);
signatureHasReturnValue(n) ==
  JsBool(n.returnType # Undefined /\ n.returnType \notin undefinedKeywords)

(***************************************************************************)
(* The promise filter and the three traversals.  promFilter is the closure *)
(* the entry point builds: [present |-> FALSE] models a caller that passes *)
(* no filter, otherwise anyPromiseAsReturn is the flag it closes over.     *)
(***************************************************************************)
NoFilter == [present |-> FALSE, anyPromiseAsReturn |-> FALSE]

PromiseFilter(anyPromiseAsReturn) ==
  [present |-> TRUE, anyPromiseAsReturn |-> anyPromiseAsReturn]

RECURSIVE hasReturnValue(_, _, _)
RECURSIVE someHasReturnValue(_, _, _, _)
RECURSIVE someCaseHasReturnValue(_, _, _, _)
RECURSIVE allBrancheshaveReturnValues(_, _)
RECURSIVE hasNonEmptyResolverCall(_, _)
RECURSIVE someHasNonEmptyResolverCall(_, _, _)
RECURSIVE someArgument(_, _, _)
RECURSIVE someCaseHasNonEmptyResolverCall(_, _, _)

\* ---- Resolver-usage traversal ------------------------------------------

\* case 'CallExpression': node.arguments[0] !== undefined holds exactly when
\* the call has an argument
resolverCallExpression(n, resolverName) ==
  \/ /\ NameOf(n.callee) = resolverName
     /\ Len(n.arguments) > 1 \/ Len(n.arguments) >= 1
  \/ someArgument(n.arguments, 1, resolverName)

\* node.arguments.some(...) of the CallExpression case
someArgument(arguments, i, resolverName) ==
  IF i > Len(arguments) THEN FALSE
  ELSE \/ /\ arguments[i].type = "Identifier"
          /\ arguments[i].name = resolverName
       \/ hasNonEmptyResolverCall(arguments[i], resolverName)
       \/ someArgument(arguments, i + 1, resolverName)

\* nodes.some((n) => hasNonEmptyResolverCall(n, resolverName))
someHasNonEmptyResolverCall(nodes, i, resolverName) ==
  IF i > Len(nodes) THEN FALSE
  ELSE \/ hasNonEmptyResolverCall(nodes[i], resolverName)
       \/ someHasNonEmptyResolverCall(nodes, i + 1, resolverName)

someCaseHasNonEmptyResolverCall(cases, i, resolverName) ==
  IF i > Len(cases) THEN FALSE
  ELSE \/ someHasNonEmptyResolverCall(cases[i].consequent, 1, resolverName)
       \/ someCaseHasNonEmptyResolverCall(cases, i + 1, resolverName)

\* faulty variant: a shadowing function is traversed like any other
resolverFunction_noShadowing(n, resolverName) ==
  hasNonEmptyResolverCall(n.body, resolverName)

\* case 'FunctionExpression', 'FunctionDeclaration', 'ArrowFunctionExpression'
resolverFunction(n, resolverName) ==
  IF (IF Len(n.params) >= 1 THEN NameOf(n.params[1]) ELSE Undefined) = resolverName
  THEN FALSE
  ELSE hasNonEmptyResolverCall(n.body, resolverName)

hasNonEmptyResolverCall(n, resolverName) ==
  IF IsNull(n) THEN FALSE
  ELSE CASE n.type = "CallExpression" -> resolverCallExpression(n, resolverName)
    [] n.type \in {"ChainExpression", "Decorator", "ExpressionStatement"} ->
         hasNonEmptyResolverCall(n.expression, resolverName)
    [] n.type \in {"ClassBody", "BlockStatement"} ->
         someHasNonEmptyResolverCall(n.body, 1, resolverName)
    [] n.type \in FunctionTypes -> resolverFunction(n, resolverName)
    [] n.type \in {"LabeledStatement", "WhileStatement", "DoWhileStatement",
                   "ForStatement", "ForInStatement", "ForOfStatement",
                   "WithStatement"} ->
         hasNonEmptyResolverCall(n.body, resolverName)
    [] n.type \in {"ConditionalExpression", "IfStatement"} ->
         \/ hasNonEmptyResolverCall(n.test, resolverName)
         \/ hasNonEmptyResolverCall(n.consequent, resolverName)
         \/ hasNonEmptyResolverCall(n.alternate, resolverName)
    [] n.type = "TryStatement" ->
         \/ hasNonEmptyResolverCall(n.block, resolverName)
         \/ hasNonEmptyResolverCall(
              IF IsNull(n.handler) THEN Null ELSE n.handler.body, resolverName)
         \/ hasNonEmptyResolverCall(n.finalizer, resolverName)
    [] n.type = "SwitchStatement" ->
         someCaseHasNonEmptyResolverCall(n.cases, 1, resolverName)
    [] n.type \in {"ArrayPattern", "ArrayExpression"} ->
         someHasNonEmptyResolverCall(n.items, 1, resolverName)
    [] n.type = "AssignmentPattern" ->
         hasNonEmptyResolverCall(n.right, resolverName)
    [] n.type \in {"AssignmentExpression", "BinaryExpression", "LogicalExpression"} ->
         \/ hasNonEmptyResolverCall(n.left, resolverName)
         \/ hasNonEmptyResolverCall(n.right, resolverName)
    [] n.type \in {"SequenceExpression", "TemplateLiteral"} ->
         someHasNonEmptyResolverCall(n.items, 1, resolverName)
    [] n.type \in {"ObjectPattern", "ObjectExpression"} ->
         someHasNonEmptyResolverCall(n.properties, 1, resolverName)
    [] n.type = "MethodDefinition" ->
         hasNonEmptyResolverCall(n.value, resolverName)
    [] n.type \in {"PropertyDefinition", "Property"} ->
         \/ n.computed /\ hasNonEmptyResolverCall(n.key, resolverName)
         \/ hasNonEmptyResolverCall(n.value, resolverName)
    [] n.type \in {"ClassExpression", "ClassDeclaration"} ->
         hasNonEmptyResolverCall(n.body, resolverName)
    [] n.type \in {"AwaitExpression", "SpreadElement", "UnaryExpression",
                   "YieldExpression"} ->
         hasNonEmptyResolverCall(n.argument, resolverName)
    [] n.type = "VariableDeclaration" ->
         someHasNonEmptyResolverCall(n.declarations, 1, resolverName)
    [] n.type = "VariableDeclarator" ->
         \/ hasNonEmptyResolverCall(n.id, resolverName)
         \/ hasNonEmptyResolverCall(n.init, resolverName)
    [] n.type = "TaggedTemplateExpression" ->
         hasNonEmptyResolverCall(n.quasi, resolverName)
    [] n.type = "MemberExpression" ->
         \/ hasNonEmptyResolverCall(n.object, resolverName)
         \/ hasNonEmptyResolverCall(n.property, resolverName)
    [] n.type = "ImportExpression" ->
         hasNonEmptyResolverCall(n.source, resolverName)
    [] n.type = "ReturnStatement" ->
         IF IsNull(n.argument) THEN FALSE
         ELSE hasNonEmptyResolverCall(n.argument, resolverName)
    [] OTHER -> FALSE

\* ---- The filter closure of hasValueOrExecutorHasNonEmptyResolveValue ---

\* (prom) => {...}: the first argument of the construction is destructured
\* into params and body; anything but a function with a parameter has none
applyPromiseFilter(prom, anyPromiseAsReturn) ==
  IF anyPromiseAsReturn THEN TRUE
  ELSE IF isVoidPromise(prom) THEN FALSE
  ELSE LET executor == IF Len(prom.arguments) >= 1 THEN prom.arguments[1] ELSE Null
       IN IF executor.type \notin FunctionTypes \/ Len(executor.params) = 0
          THEN FALSE
          ELSE hasNonEmptyResolverCall(executor.body, NameOf(executor.params[1]))

promFilterCall(promFilter, prom) ==
  JsBool(applyPromiseFilter(prom, promFilter.anyPromiseAsReturn))

\* ---- Existence traversal ------------------------------------------------

\* the part of case 'ReturnStatement' that the two traversals share: the
\* statement has an argument
returnStatementValue(n, promFilter) ==
  IF promFilter.present /\ isNewPromiseExpression(n.argument)
  THEN promFilterCall(promFilter, n.argument)
  ELSE JsTrue

\* case 'ReturnStatement' of hasReturnValue
existsReturnStatement(n, throwOnNullReturn, promFilter) ==
  IF IsNull(n.argument)
  THEN IF throwOnNullReturn THEN NullReturn ELSE JsFalse
  ELSE returnStatementValue(n, promFilter)

\* faulty variant: an expression body always counts as a value
existsFunction_noVoidCheck(n, throwOnNullReturn, promFilter) ==
  JsOr(JsBool(n.expression),
       hasReturnValue(n.body, throwOnNullReturn, promFilter))

\* case 'FunctionExpression', 'FunctionDeclaration', 'ArrowFunctionExpression'
existsFunction(n, throwOnNullReturn, promFilter) ==
  JsOr(JsBool(n.expression
              /\ (~isNewPromiseExpression(n.body) \/ ~isVoidPromise(n.body))),
       hasReturnValue(n.body, throwOnNullReturn, promFilter))

\* case 'IfStatement'
existsIfStatement(n, throwOnNullReturn, promFilter) ==
  JsOr(hasReturnValue(n.consequent, throwOnNullReturn, promFilter),
       hasReturnValue(n.alternate, throwOnNullReturn, promFilter))

\* case 'TryStatement'
existsTryStatement(n, throwOnNullReturn, promFilter) ==
  JsOr(hasReturnValue(n.block, throwOnNullReturn, promFilter),
    JsOr(hasReturnValue(IF IsNull(n.handler) THEN Null ELSE n.handler.body,
                        throwOnNullReturn, promFilter),
         hasReturnValue(n.finalizer, throwOnNullReturn, promFilter)))

\* node.body.some(...) of case 'BlockStatement' (skipFunctions) and
\* someCase.consequent.some(...) of case 'SwitchStatement'
someHasReturnValue(nodes, i, skipFunctions, tp) ==
  IF i > Len(nodes) THEN JsFalse
  ELSE JsOr(IF skipFunctions /\ nodes[i].type = "FunctionDeclaration"
            THEN JsFalse
            ELSE hasReturnValue(nodes[i], tp[1], tp[2]),
            someHasReturnValue(nodes, i + 1, skipFunctions, tp))

\* node.cases.some(...)
someCaseHasReturnValue(cases, i, throwOnNullReturn, promFilter) ==
  IF i > Len(cases) THEN JsFalse
  ELSE JsOr(someHasReturnValue(cases[i].consequent, 1, FALSE,
                               <<throwOnNullReturn, promFilter>>),
            someCaseHasReturnValue(cases, i + 1, throwOnNullReturn, promFilter))

hasReturnValue(n, throwOnNullReturn, promFilter) ==
  IF IsNull(n) THEN JsFalse
  ELSE CASE n.type \in SignatureTypes -> signatureHasReturnValue(n)
    [] n.type = "MethodDefinition" ->
         hasReturnValue(n.value, throwOnNullReturn, promFilter)
    [] n.type \in FunctionTypes -> existsFunction(n, throwOnNullReturn, promFilter)
    [] n.type = "BlockStatement" ->
         someHasReturnValue(n.body, 1, TRUE, <<throwOnNullReturn, promFilter>>)
    [] n.type \in {"LabeledStatement", "WhileStatement", "DoWhileStatement",
                   "ForStatement", "ForInStatement", "ForOfStatement",
                   "WithStatement"} ->
         hasReturnValue(n.body, throwOnNullReturn, promFilter)
    [] n.type = "IfStatement" -> existsIfStatement(n, throwOnNullReturn, promFilter)
    [] n.type = "TryStatement" -> existsTryStatement(n, throwOnNullReturn, promFilter)
    [] n.type = "SwitchStatement" ->
         someCaseHasReturnValue(n.cases, 1, throwOnNullReturn, promFilter)
    [] n.type = "ReturnStatement" ->
         existsReturnStatement(n, throwOnNullReturn, promFilter)
    [] OTHER -> JsFalse

\* ---- Exhaustiveness traversal -------------------------------------------

\* node.body.body.some((nde) => nde.type === 'ReturnStatement'); a body
\* that is no block has no body of its own, and reading .some of it throws
someIsReturnStatement(body) ==
  IF body.type # "BlockStatement" THEN TypeError
  ELSE JsBool(\E i \in 1..Len(body.body) : body.body[i].type = "ReturnStatement")

\* case 'FunctionExpression', 'FunctionDeclaration', 'ArrowFunctionExpression'
allBranchesFunction(n, promFilter) ==
  JsOr(JsBool(n.expression
              /\ (~isNewPromiseExpression(n.body) \/ ~isVoidPromise(n.body))),
    JsOr(allBrancheshaveReturnValues(n.body, promFilter),
         someIsReturnStatement(n.body)))

\* faulty variant: every statement of the block is looked at, not the last one
allBranchesBlockStatement_any(n, promFilter) ==
  JsBool(\E i \in 1..Len(n.body) :
           allBrancheshaveReturnValues(n.body[i], promFilter) = JsTrue)

\* case 'BlockStatement': node.body.slice(-1)[0]
allBranchesBlockStatement(n, promFilter) ==
  allBrancheshaveReturnValues(
    IF Len(n.body) = 0 THEN Null ELSE n.body[Len(n.body)], promFilter)

\* node.test.value === true
testIsLiteralTrue(n) == n.test.type = "Literal" /\ n.test.value = "true"

\* faulty variant: the for loop is treated like while and do-while
allBranchesLoop_forToo(n, promFilter) ==
  IF /\ n.type \in {"WhileStatement", "DoWhileStatement", "ForStatement"}
     /\ testIsLiteralTrue(n)
  THEN hasReturnValue(n.body, FALSE, promFilter)
  ELSE allBrancheshaveReturnValues(n.body, promFilter)

\* case 'WhileStatement', 'DoWhileStatement' and, by fallthrough, the other
\* loops, 'LabeledStatement' and 'WithStatement'
allBranchesLoop(n, promFilter) ==
  IF /\ n.type \in {"WhileStatement", "DoWhileStatement"}
     /\ testIsLiteralTrue(n)
  THEN hasReturnValue(n.body, FALSE, promFilter)
  ELSE allBrancheshaveReturnValues(n.body, promFilter)

\* faulty variant: either branch is enough
allBranchesIfStatement_or(n, promFilter) ==
  JsOr(allBrancheshaveReturnValues(n.consequent, promFilter),
       allBrancheshaveReturnValues(n.alternate, promFilter))

\* case 'IfStatement'
allBranchesIfStatement(n, promFilter) ==
  JsAnd(allBrancheshaveReturnValues(n.consequent, promFilter),
        allBrancheshaveReturnValues(n.alternate, promFilter))

\* the function called in place in case 'TryStatement': the EmptyReturn
\* signal of the finalizer is caught here
finalizerHasNoNullReturn(finalizer, promFilter) ==
  LET r == hasReturnValue(finalizer, TRUE, promFilter)
  IN IF r = NullReturn THEN JsFalse
     ELSE IF Thrown(r) THEN r
     ELSE JsTrue

\* case 'TryStatement'
allBranchesTryStatement(n, promFilter) ==
  JsOr(JsAnd(JsBool(~IsNull(n.finalizer)),
             allBrancheshaveReturnValues(n.finalizer, promFilter)),
    JsAnd(allBrancheshaveReturnValues(n.block, promFilter),
      JsAnd(JsOr(JsBool(IsNull(n.handler)),
                 allBrancheshaveReturnValues(
                   IF IsNull(n.handler) THEN Null ELSE n.handler.body,
                   promFilter)),
            JsOr(JsBool(IsNull(n.finalizer)),
                 finalizerHasNoNullReturn(n.finalizer, promFilter)))))

\* case 'SwitchStatement'
allBranchesSwitchStatement(n) ==
  JsBool(\A i \in 1..Len(n.cases) :
           ~\E j \in 1..Len(n.cases[i].consequent) :
              LET consNode == n.cases[i].consequent[j]
              IN \/ consNode.type = "BreakStatement"
                 \/ consNode.type = "ReturnStatement" /\ IsNull(consNode.argument))

\* case 'ReturnStatement' of allBrancheshaveReturnValues
allBranchesReturnStatement(n, promFilter) ==
  IF IsNull(n.argument) THEN JsFalse
  ELSE returnStatementValue(n, promFilter)

allBrancheshaveReturnValues(n, promFilter) ==
  IF IsNull(n) THEN JsFalse
  ELSE CASE n.type \in SignatureTypes -> signatureHasReturnValue(n)
    [] n.type \in FunctionTypes -> allBranchesFunction(n, promFilter)
    [] n.type = "BlockStatement" -> allBranchesBlockStatement(n, promFilter)
    [] n.type \in {"WhileStatement", "DoWhileStatement", "LabeledStatement",
                   "ForStatement", "ForInStatement", "ForOfStatement",
                   "WithStatement"} -> allBranchesLoop(n, promFilter)
    [] n.type = "IfStatement" -> allBranchesIfStatement(n, promFilter)
    [] n.type = "TryStatement" -> allBranchesTryStatement(n, promFilter)
    [] n.type = "SwitchStatement" -> allBranchesSwitchStatement(n)
    [] n.type = "ThrowStatement" -> JsTrue
    [] n.type = "ReturnStatement" -> allBranchesReturnStatement(n, promFilter)
    [] OTHER -> JsFalse

\* ---- Composite entry point ----------------------------------------------

\* faulty variant: the escalated existence check is made outside the try block
hasReturnMethod_noCatch(nde, promiseFilter, allBranches) ==
  IF allBranches
  THEN JsAnd(hasReturnValue(nde, TRUE, promiseFilter),
             allBrancheshaveReturnValues(nde, promiseFilter))
  ELSE hasReturnValue(nde, FALSE, promiseFilter)

\* faulty variant: the existence check before the exhaustiveness check is dropped
hasReturnMethod_noExistence(nde, promiseFilter, allBranches) ==
  IF allBranches
  THEN allBrancheshaveReturnValues(nde, promiseFilter)
  ELSE hasReturnValue(nde, FALSE, promiseFilter)

\* const hasReturnMethod = allBranches ? ... : ...
hasReturnMethod(nde, promiseFilter, allBranches) ==
  IF allBranches
  THEN LET hasReturn == hasReturnValue(nde, TRUE, promiseFilter)
       IN IF hasReturn = NullReturn
          THEN JsFalse
          \* JsAnd passes any other error on
          ELSE JsAnd(hasReturn, allBrancheshaveReturnValues(nde, promiseFilter))
  ELSE hasReturnValue(nde, FALSE, promiseFilter)

hasValueOrExecutorHasNonEmptyResolveValue(n, anyPromiseAsReturn, allBranches) ==
  hasReturnMethod(n, PromiseFilter(anyPromiseAsReturn), allBranches)

(***************************************************************************)
(* The state machine.  node is the syntax tree handed to the module        *)
(* (owned by the parser: every syntax tree of the covered kinds is a       *)
(* possible input), built bottom-up by wrapping it into a parent node up   *)
(* to MaxDepth times; call records the last invocation of the module.      *)
(***************************************************************************)
MaxDepth == 2

NoCall ==
  [done |-> FALSE, op |-> "none", form |-> "node", anyPromiseAsReturn |-> FALSE,
   allBranches |-> FALSE, result |-> JsFalse]

\* new Promise<typeParameter>(executor)
NewPromise(typeParameter, executor) ==
  NewExpression(Identifier("Promise"), typeParameter, <<executor>>)

\* (resolve) => body
Executor(body, expression) ==
  FunctionLike("ArrowFunctionExpression", <<Identifier("resolve")>>, body, expression)

\* foo();
FooCall == ExpressionStatement(CallExpression(Identifier("foo"), <<>>))

ReturnOne == ReturnStatement(Literal("1"))
ReturnTwo == ReturnStatement(Literal("2"))
ReturnNothing == ReturnStatement(Null)

\* { if (x) { return 1; } }
IfWithoutAlternate ==
  BlockStatement(<<IfStatement(Identifier("x"), BlockStatement(<<ReturnOne>>), Null)>>)

\* { if (x) { return 1; } else { return 2; } }
IfWithAlternate ==
  BlockStatement(<<IfStatement(Identifier("x"), BlockStatement(<<ReturnOne>>),
                               BlockStatement(<<ReturnTwo>>))>>)

\* the nodes a tree starts from
StatementLeaves ==
  << ReturnOne, ReturnNothing, FooCall, ThrowStatement(Identifier("e")),
     ReturnStatement(NewPromise(Undefined, Executor(BlockStatement(<<>>), FALSE))),
     BlockStatement(<<ReturnOne>>),
     IfStatement(Identifier("x"), BlockStatement(<<ReturnOne>>), Null),
     TSSignature("TSDeclareFunction", "TSNumberKeyword"),
     TSSignature("TSDeclareFunction", "TSVoidKeyword"),
     TSSignature("TSMethodSignature", Undefined) >>

\* the statements placed beside node in a block
Siblings == << ReturnOne, ReturnNothing, FooCall >>

\* loop tests: the literal true, an identifier
Tests == << Literal("true"), Identifier("x") >>

\* the nodes that stand where a statement stands
IsStatement(n) ==
  n.type \notin {"FunctionExpression", "ArrowFunctionExpression",
                 "MethodDefinition", "NewExpression"} \cup SignatureTypes

CanWrap == ~call.done /\ depth < MaxDepth /\ IsStatement(node)

Wrap(n) == node' = n /\ depth' = depth + 1 /\ UNCHANGED call

Init ==
  /\ \E i \in 1..Len(StatementLeaves) : node = StatementLeaves[i]
  /\ depth = 0
  /\ call = NoCall

WrapBlock ==
  /\ CanWrap
  /\ \/ Wrap(BlockStatement(<<node>>))
     \/ \E i \in 1..Len(Siblings) : Wrap(BlockStatement(<<node, Siblings[i]>>))
     \/ \E i \in 1..Len(Siblings) : Wrap(BlockStatement(<<Siblings[i], node>>))

WrapIf ==
  /\ CanWrap
  /\ \/ Wrap(IfStatement(Identifier("x"), node, Null))
     \/ Wrap(IfStatement(Identifier("x"), node, BlockStatement(<<ReturnTwo>>)))
     \/ Wrap(IfStatement(Identifier("x"), ReturnOne, node))

WrapTestLoop ==
  /\ CanWrap
  /\ \E i \in 1..Len(Tests) :
       \/ Wrap(TestLoop("WhileStatement", Tests[i], node))
       \/ Wrap(TestLoop("DoWhileStatement", Tests[i], node))
       \/ Wrap(ForStatement(Null, Tests[i], Null, node))

WrapOtherLoop ==
  /\ CanWrap
  /\ \/ Wrap(ForStatement(Null, Null, Null, node))
     \/ Wrap(ForEachLoop("ForInStatement", Identifier("k"), Identifier("o"), node))
     \/ Wrap(ForEachLoop("ForOfStatement", Identifier("k"), Identifier("o"), node))
     \/ Wrap(LabeledStatement(node))
     \/ Wrap(WithStatement(Identifier("o"), node))

\* the parts of a try statement are blocks
WrapTry ==
  /\ CanWrap
  /\ node.type = "BlockStatement"
  /\ \/ \E i \in 1..Len(Siblings) :
          \/ Wrap(TryStatement(node, Null, BlockStatement(<<Siblings[i]>>)))
          \/ Wrap(TryStatement(node, CatchClause(BlockStatement(<<Siblings[i]>>)), Null))
          \/ Wrap(TryStatement(BlockStatement(<<Siblings[i]>>), Null, node))
          \/ Wrap(TryStatement(BlockStatement(<<Siblings[i]>>), CatchClause(node), Null))
     \/ Wrap(TryStatement(BlockStatement(<<ReturnOne>>),
                          CatchClause(BlockStatement(<<ReturnOne>>)), node))

WrapSwitch ==
  /\ CanWrap
  /\ \/ Wrap(SwitchStatement(Identifier("x"), <<SwitchCase(Null, <<node>>)>>))
     \/ Wrap(SwitchStatement(Identifier("x"),
               <<SwitchCase(Literal("1"), <<node>>),
                 SwitchCase(Null, <<BreakStatement>>)>>))

\* the body of a function that is no expression-bodied arrow is a block
WrapFunction ==
  /\ CanWrap
  /\ node.type = "BlockStatement"
  /\ \E t \in FunctionTypes : Wrap(FunctionLike(t, <<>>, node, FALSE))

WrapMethod ==
  /\ ~call.done
  /\ depth < MaxDepth
  /\ node.type = "FunctionExpression"
  /\ Wrap(MethodDefinition(node))

\* hasValueOrExecutorHasNonEmptyResolveValue(node, anyPromiseAsReturn, allBranches)
Decide ==
  /\ ~call.done
  /\ \E anyPromiseAsReturn \in BOOLEAN, allBranches \in BOOLEAN :
       call' = [done |-> TRUE, op |-> "decide", form |-> "node",
                anyPromiseAsReturn |-> anyPromiseAsReturn,
                allBranches |-> allBranches,
                result |-> hasValueOrExecutorHasNonEmptyResolveValue(
                             node, anyPromiseAsReturn, allBranches)]
  /\ UNCHANGED <<node, depth>>

Next ==
  \/ WrapBlock
  \/ WrapIf
  \/ WrapTestLoop
  \/ WrapOtherLoop
  \/ WrapTry
  \/ WrapSwitch
  \/ WrapFunction
  \/ WrapMethod
  \/ Decide

Spec == Init /\ [][Next]_vars

(***************************************************************************)
(* The executor of a promise.  In SpecResolver node is the body of the     *)
(* executor (resolve) => ..., an expression or a statement, built from     *)
(* calls that do or do not use the resolver.                               *)
(***************************************************************************)
ResolverName == "resolve"

\* resolve(1), resolve(), resolve(undefined), foo(resolve), foo(1), resolve
ResolverLeaves ==
  << CallExpression(Identifier(ResolverName), <<Literal("1")>>),
     CallExpression(Identifier(ResolverName), <<>>),
     CallExpression(Identifier(ResolverName), <<Identifier("undefined")>>),
     CallExpression(Identifier("foo"), <<Identifier(ResolverName)>>),
     CallExpression(Identifier("foo"), <<Literal("1")>>),
     Identifier(ResolverName) >>

ExpressionTypes ==
  {"CallExpression", "Identifier", "Literal", "NewExpression", "MemberExpression",
   "ConditionalExpression", "ArrayExpression", "SequenceExpression",
   "TemplateLiteral", "ObjectExpression", "AssignmentExpression",
   "BinaryExpression", "LogicalExpression", "AwaitExpression", "UnaryExpression",
   "YieldExpression", "FunctionExpression", "ArrowFunctionExpression"}

IsExpression(n) == n.type \in ExpressionTypes

CanWrapExpression == ~call.done /\ depth < MaxDepth /\ IsExpression(node)

CanWrapStatement ==
  ~call.done /\ depth < MaxDepth /\ ~IsExpression(node) /\ node.type # "MethodDefinition"

EmptyBlock == BlockStatement(<<>>)

\* the first parameters of a nested function: the resolver's name, another
\* name, none
ParameterLists == << <<Identifier(ResolverName)>>, <<Identifier("x")>>, <<>> >>

InitResolver ==
  /\ \E i \in 1..Len(ResolverLeaves) : node = ResolverLeaves[i]
  /\ depth = 0
  /\ call = NoCall

\* foo(node), foo(1, node), foo(resolve, node), node(), node.then()
WrapCall ==
  /\ CanWrapExpression
  /\ \/ Wrap(CallExpression(Identifier("foo"), <<node>>))
     \/ Wrap(CallExpression(Identifier("foo"), <<Literal("1"), node>>))
     \/ Wrap(CallExpression(Identifier("foo"), <<Identifier(ResolverName), node>>))
     \/ Wrap(CallExpression(node, <<>>))
     \/ Wrap(CallExpression(MemberExpression(node, Identifier("then")), <<>>))

WrapMember ==
  /\ CanWrapExpression
  /\ \/ Wrap(MemberExpression(node, Identifier("p")))
     \/ Wrap(MemberExpression(Identifier("o"), node))

WrapConditional ==
  /\ CanWrapExpression
  /\ \/ Wrap(ConditionalExpression(node, Literal("1"), Literal("2")))
     \/ Wrap(ConditionalExpression(Identifier("x"), node, Literal("2")))
     \/ Wrap(ConditionalExpression(Identifier("x"), Literal("1"), node))

\* [1, node], [...node], (1, node), `${node}`, {p: node}
WrapList ==
  /\ CanWrapExpression
  /\ \/ Wrap(ListExpression("ArrayExpression", <<Literal("1"), node>>))
     \/ Wrap(ListExpression("ArrayExpression", <<UnaryLike("SpreadElement", node)>>))
     \/ Wrap(ListExpression("SequenceExpression", <<Literal("1"), node>>))
     \/ Wrap(ListExpression("TemplateLiteral", <<node>>))
     \/ Wrap(ObjectExpression(<<Property(node)>>))

WrapBinary ==
  /\ CanWrapExpression
  /\ \/ Wrap(BinaryLike("AssignmentExpression", Identifier("x"), node))
     \/ Wrap(BinaryLike("BinaryExpression", node, Literal("1")))
     \/ Wrap(BinaryLike("LogicalExpression", Identifier("x"), node))

WrapUnary ==
  /\ CanWrapExpression
  /\ \E t \in {"AwaitExpression", "UnaryExpression", "YieldExpression"} :
       Wrap(UnaryLike(t, node))

\* an arrow function whose body is the expression
WrapArrowExpression ==
  /\ CanWrapExpression
  /\ \E i \in 1..Len(ParameterLists) :
       Wrap(FunctionLike("ArrowFunctionExpression", ParameterLists[i], node, TRUE))

\* node; return node; var v = node;
WrapExpressionStatement ==
  /\ CanWrapExpression
  /\ \/ Wrap(ExpressionStatement(node))
     \/ Wrap(ReturnStatement(node))
     \/ Wrap(VariableDeclaration(<<VariableDeclarator(Identifier("v"), node)>>))

\* the expression is the test of a conditional or of a loop, or the
\* discriminant of a switch
WrapAsTest ==
  /\ CanWrapExpression
  /\ \/ Wrap(IfStatement(node, EmptyBlock, Null))
     \/ Wrap(TestLoop("WhileStatement", node, EmptyBlock))
     \/ Wrap(TestLoop("DoWhileStatement", node, EmptyBlock))
     \/ Wrap(ForStatement(Null, node, Null, EmptyBlock))
     \/ Wrap(SwitchStatement(node, <<>>))

\* the statement is in a block, in a branch of a conditional, in the body
\* of a loop
WrapBody ==
  /\ CanWrapStatement
  /\ \/ Wrap(BlockStatement(<<FooCall, node>>))
     \/ Wrap(IfStatement(Identifier("x"), node, Null))
     \/ Wrap(IfStatement(Identifier("x"), EmptyBlock, node))
     \/ Wrap(TestLoop("WhileStatement", Identifier("x"), node))
     \/ Wrap(ForStatement(Null, Null, Null, node))
     \/ Wrap(ForEachLoop("ForOfStatement", Identifier("k"), Identifier("o"), node))
     \/ Wrap(LabeledStatement(node))

\* the statement is in a part of a try statement or in a case of a switch
WrapTryOrSwitch ==
  /\ CanWrapStatement
  /\ \/ Wrap(TryStatement(BlockStatement(<<node>>), Null, EmptyBlock))
     \/ Wrap(TryStatement(EmptyBlock, CatchClause(BlockStatement(<<node>>)), Null))
     \/ Wrap(TryStatement(EmptyBlock, Null, BlockStatement(<<node>>)))
     \/ Wrap(SwitchStatement(Identifier("x"),
               <<SwitchCase(Literal("1"), <<BreakStatement>>),
                 SwitchCase(Null, <<node>>)>>))

\* the statement is the body of a nested function
WrapNestedFunction ==
  /\ CanWrapStatement
  /\ \E i \in 1..Len(ParameterLists) : \E t \in FunctionTypes :
       Wrap(FunctionLike(t, ParameterLists[i], BlockStatement(<<node>>), FALSE))

\* hasNonEmptyResolverCall(node, 'resolve')
CallResolver ==
  /\ ~call.done
  /\ call' = [NoCall EXCEPT !.done = TRUE, !.op = "resolver",
                !.result = JsBool(hasNonEmptyResolverCall(node, ResolverName))]
  /\ UNCHANGED <<node, depth>>

\* function f() { return new Promise((resolve) => body); }
ReturnedPromise(body) ==
  FunctionLike("FunctionDeclaration", <<>>,
    BlockStatement(<<ReturnStatement(
      NewPromise(Undefined,
        IF IsExpression(body) THEN Executor(body, TRUE)
        ELSE Executor(BlockStatement(<<body>>), FALSE)))>>),
    FALSE)

\* hasValueOrExecutorHasNonEmptyResolveValue on the function that returns the
\* promise whose executor has node as its body
DecideReturnedPromise ==
  /\ ~call.done
  /\ \E allBranches \in BOOLEAN :
       call' = [NoCall EXCEPT !.done = TRUE, !.op = "decide",
                  !.allBranches = allBranches,
                  !.result = hasValueOrExecutorHasNonEmptyResolveValue(
                               ReturnedPromise(node), FALSE, allBranches)]
  /\ UNCHANGED <<node, depth>>

NextResolver ==
  \/ WrapCall
  \/ WrapMember
  \/ WrapConditional
  \/ WrapList
  \/ WrapBinary
  \/ WrapUnary
  \/ WrapArrowExpression
  \/ WrapExpressionStatement
  \/ WrapAsTest
  \/ WrapBody
  \/ WrapTryOrSwitch
  \/ WrapNestedFunction
  \/ CallResolver
  \/ DecideReturnedPromise

SpecResolver == InitResolver /\ [][NextResolver]_vars

(***************************************************************************)
(* The function that returns an expression.  In SpecPromise node becomes   *)
(* the expression E: a promise construction around the executor built so   *)
(* far, or any other expression; the entry point is called on a function   *)
(* with the body E or { return E; }.                                       *)
(***************************************************************************)
\* the first type argument of new Promise<T>(...): none, or a keyword type
TypeParameters ==
  {Undefined, "TSVoidKeyword", "TSUndefinedKeyword", "TSNeverKeyword",
   "TSStringKeyword"}

\* the expression-bodied arrow function, or a function of the given type
\* whose body is { return E; }
Forms == {"expression"} \cup FunctionTypes

FunctionOf(form, E) ==
  IF form = "expression"
  THEN FunctionLike("ArrowFunctionExpression", <<>>, E, TRUE)
  ELSE FunctionLike(form, <<>>, BlockStatement(<<ReturnStatement(E)>>), FALSE)

\* new Promise<T>((resolve) => node)
MakePromise ==
  /\ ~call.done
  /\ depth < MaxDepth
  /\ \E T \in TypeParameters :
       Wrap(NewPromise(T,
              IF IsExpression(node) THEN Executor(node, TRUE)
              ELSE Executor(BlockStatement(<<node>>), FALSE)))

\* hasValueOrExecutorHasNonEmptyResolveValue on the function returning node
DecideFunction ==
  /\ ~call.done
  /\ IsExpression(node)
  /\ \E form \in Forms, anyPromiseAsReturn \in BOOLEAN, allBranches \in BOOLEAN :
       call' = [done |-> TRUE, op |-> "decide", form |-> form,
                anyPromiseAsReturn |-> anyPromiseAsReturn,
                allBranches |-> allBranches,
                result |-> hasValueOrExecutorHasNonEmptyResolveValue(
                             FunctionOf(form, node), anyPromiseAsReturn,
                             allBranches)]
  /\ UNCHANGED <<node, depth>>

NextPromise ==
  \/ WrapCall
  \/ WrapExpressionStatement
  \/ WrapArrowExpression
  \/ WrapNestedFunction
  \/ MakePromise
  \/ DecideFunction

SpecPromise == InitResolver /\ [][NextPromise]_vars

\* the filters a traversal is called with
Filters == {NoFilter, PromiseFilter(FALSE), PromiseFilter(TRUE)}

\* the filter of the recorded call
CallFilter == PromiseFilter(call.anyPromiseAsReturn)

(***************************************************************************)
(* C4: a call of hasValueOrExecutorHasNonEmptyResolveValue returns true or *)
(* false and never lets the 'Null return' error out: the error raised by   *)
(* the escalated existence check is turned into false by the entry point,  *)
(* and the exhaustiveness traversal never passes it on.                    *)
(***************************************************************************)
C4_NoSignalEscapes ==
  call.done =>
    /\ call.result \in {JsTrue, JsFalse}
    /\ allBrancheshaveReturnValues(node, CallFilter) # NullReturn
    /\ (call.allBranches /\ hasReturnValue(node, TRUE, CallFilter) = NullReturn)
         => call.result = JsFalse

\* the finalizer of a try statement raises the signal inside the exhaustiveness
\* traversal of an all-branches call whose existence check did not raise it
C4_Witness ==
  /\ call.done
  /\ call.allBranches
  /\ node.type = "TryStatement"
  /\ ~IsNull(node.finalizer)
  /\ hasReturnValue(node, TRUE, CallFilter) = JsTrue
  /\ hasReturnValue(node.finalizer, TRUE, CallFilter) = NullReturn
  /\ allBrancheshaveReturnValues(node.finalizer, CallFilter) = JsFalse

(***************************************************************************)
(* C5: for an IfStatement, exhaustiveness holds iff it holds for the       *)
(* consequent and for the alternate (never without an alternate), and      *)
(* existence holds iff it holds for the consequent or the alternate;       *)
(* { if (x) { return 1; } } has existence true and exhaustiveness false,   *)
(* { if (x) { return 1; } else { return 2; } } has both true.              *)
(***************************************************************************)
C5_Conditional ==
  /\ node.type = "IfStatement" =>
       \A f \in Filters :
         /\ allBrancheshaveReturnValues(node, f) = JsTrue
              <=> /\ allBrancheshaveReturnValues(node.consequent, f) = JsTrue
                  /\ allBrancheshaveReturnValues(node.alternate, f) = JsTrue
         /\ IsNull(node.alternate) => allBrancheshaveReturnValues(node, f) = JsFalse
         /\ hasReturnValue(node, FALSE, f) = JsTrue
              <=> \/ hasReturnValue(node.consequent, FALSE, f) = JsTrue
                  \/ hasReturnValue(node.alternate, FALSE, f) = JsTrue
  /\ node = IfWithoutAlternate =>
       \A f \in Filters :
         /\ hasReturnValue(node, FALSE, f) = JsTrue
         /\ allBrancheshaveReturnValues(node, f) = JsFalse
  /\ node = IfWithAlternate =>
       \A f \in Filters :
         /\ hasReturnValue(node, FALSE, f) = JsTrue
         /\ allBrancheshaveReturnValues(node, f) = JsTrue

\* an all-branches call on { if (x) { return 1; } }, which has a valued
\* return and is rejected for its missing alternate
C5_Witness ==
  /\ call.done
  /\ call.allBranches
  /\ node = IfWithoutAlternate
  /\ call.result = JsFalse

\* the existence call on { if (x) { return 1; } else { return 2; } }
C5_WitnessWithAlternate ==
  /\ call.done
  /\ ~call.allBranches
  /\ node = IfWithAlternate
  /\ call.result = JsTrue

LoopTypes ==
  {"WhileStatement", "DoWhileStatement", "ForStatement", "ForInStatement",
   "ForOfStatement"}

\* the loop has a test and the test is the literal true
HasLiteralTrueTest(n) ==
  /\ n.type \in {"WhileStatement", "DoWhileStatement", "ForStatement"}
  /\ testIsLiteralTrue(n)

(***************************************************************************)
(* C6 as stated: for a while, do-while or for loop whose test is the       *)
(* literal true, exhaustiveness of the loop is existence (no escalation)   *)
(* of its body; for every other loop it is exhaustiveness of its body.     *)
(***************************************************************************)
C6_Original ==
  node.type \in LoopTypes =>
    \A f \in Filters :
      allBrancheshaveReturnValues(node, f) =
        IF HasLiteralTrueTest(node)
        THEN hasReturnValue(node.body, FALSE, f)
        ELSE allBrancheshaveReturnValues(node.body, f)

(***************************************************************************)
(* C6 amended: for a while or do-while loop whose test is the literal      *)
(* true, exhaustiveness of the loop is existence (no escalation) of its    *)
(* body; for every other loop, a for loop with the test true included, it  *)
(* is exhaustiveness of its body.                                          *)
(***************************************************************************)
C6_InfiniteLoop ==
  node.type \in LoopTypes =>
    \A f \in Filters :
      allBrancheshaveReturnValues(node, f) =
        IF HasLiteralTrueTest(node) /\ node.type # "ForStatement"
        THEN hasReturnValue(node.body, FALSE, f)
        ELSE allBrancheshaveReturnValues(node.body, f)

\* a while (true) loop whose body has a valued return without being exhaustive
C6_Witness ==
  /\ node.type = "WhileStatement"
  /\ testIsLiteralTrue(node)
  /\ hasReturnValue(node.body, FALSE, NoFilter) = JsTrue
  /\ allBrancheshaveReturnValues(node.body, NoFilter) = JsFalse
  /\ allBrancheshaveReturnValues(node, NoFilter) = JsTrue

\* an argument-less return among the statements the existence traversal
\* visits in n
RECURSIVE ContainsNullReturn(_)
ContainsNullReturn(n) ==
  CASE n.type = "ReturnStatement" -> IsNull(n.argument)
    [] n.type = "BlockStatement" ->
         \E i \in 1..Len(n.body) :
           n.body[i].type # "FunctionDeclaration" /\ ContainsNullReturn(n.body[i])
    [] n.type \in LoopTypes \cup {"LabeledStatement", "WithStatement"} ->
         ContainsNullReturn(n.body)
    [] n.type = "IfStatement" ->
         ContainsNullReturn(n.consequent) \/ ContainsNullReturn(n.alternate)
    [] n.type = "TryStatement" ->
         \/ ContainsNullReturn(n.block)
         \/ ~IsNull(n.handler) /\ ContainsNullReturn(n.handler.body)
         \/ ContainsNullReturn(n.finalizer)
    [] n.type = "SwitchStatement" ->
         \E i \in 1..Len(n.cases) : \E j \in 1..Len(n.cases[i].consequent) :
           ContainsNullReturn(n.cases[i].consequent[j])
    [] n.type \in FunctionTypes -> ContainsNullReturn(n.body)
    [] OTHER -> FALSE

(***************************************************************************)
(* C7: a try statement is exhaustive when it has an exhaustive finalizer;  *)
(* otherwise iff its block is exhaustive, it has no handler or the handler *)
(* body is exhaustive, and it has no finalizer or the finalizer contains   *)
(* no argument-less return among the statements existence traverses.       *)
(***************************************************************************)
C7_TryStatement ==
  node.type = "TryStatement" =>
    \A f \in Filters :
      allBrancheshaveReturnValues(node, f) = JsTrue
        <=> \/ /\ ~IsNull(node.finalizer)
               /\ allBrancheshaveReturnValues(node.finalizer, f) = JsTrue
            \/ /\ allBrancheshaveReturnValues(node.block, f) = JsTrue
               /\ \/ IsNull(node.handler)
                  \/ allBrancheshaveReturnValues(node.handler.body, f) = JsTrue
               /\ \/ IsNull(node.finalizer)
                  \/ ~ContainsNullReturn(node.finalizer)

\* the last statement of the body block of a function
LastStatement(fn) ==
  IF fn.body.type # "BlockStatement" \/ Len(fn.body.body) = 0 THEN Null
  ELSE fn.body.body[Len(fn.body.body)]

\* the call was an all-branches call on a function with a block body
AllBranchesOnFunction ==
  /\ call.done
  /\ call.allBranches
  /\ node.type \in FunctionTypes
  /\ node.body.type = "BlockStatement"

(***************************************************************************)
(* C8 as stated: an all-branches call on a function returns true only if   *)
(* exhaustiveness holds for the last statement of the function's body.     *)
(***************************************************************************)
C8_Original ==
  (AllBranchesOnFunction /\ call.result = JsTrue) =>
    allBrancheshaveReturnValues(LastStatement(node), CallFilter) = JsTrue

(***************************************************************************)
(* C8 amended: an all-branches call on a function returns true only if     *)
(* exhaustiveness holds for the last statement of the function's body or   *)
(* a return statement is among the direct statements of the body; a body   *)
(* whose last statement is not exhaustive and that has no direct return    *)
(* statement gives false.                                                  *)
(***************************************************************************)
C8_LastStatementOrDirectReturn ==
  (AllBranchesOnFunction /\ call.result = JsTrue) =>
    \/ allBrancheshaveReturnValues(LastStatement(node), CallFilter) = JsTrue
    \/ \E i \in 1..Len(node.body.body) : node.body.body[i].type = "ReturnStatement"

\* an all-branches call on a function whose body has a valued return in a
\* nested statement, no direct return statement and a last statement that is
\* not exhaustive: the call gives false
C8_Witness ==
  /\ AllBranchesOnFunction
  /\ hasReturnValue(node, TRUE, CallFilter) = JsTrue
  /\ allBrancheshaveReturnValues(LastStatement(node), CallFilter) = JsFalse
  /\ \A i \in 1..Len(node.body.body) : node.body.body[i].type # "ReturnStatement"
  /\ call.result = JsFalse

(***************************************************************************)
(* C9: the all-branches decision is never weaker than the existence        *)
(* decision: a node the all-branches call accepts is accepted by the       *)
(* existence call with the same anyPromiseAsReturn; a node that only the   *)
(* exhaustiveness traversal accepts (a throw statement, a switch without   *)
(* returns) is rejected by the all-branches call.                          *)
(***************************************************************************)
C9_AllBranchesImpliesExistence ==
  (call.done /\ call.allBranches) =>
    /\ call.result = JsTrue =>
         hasValueOrExecutorHasNonEmptyResolveValue(
           node, call.anyPromiseAsReturn, FALSE) = JsTrue
    /\ hasReturnValue(node, FALSE, CallFilter) # JsTrue => call.result = JsFalse

\* an all-branches call on a node that is exhaustive by a throw statement or
\* a switch alone
C9_Witness ==
  /\ call.done
  /\ call.allBranches
  /\ allBrancheshaveReturnValues(node, CallFilter) = JsTrue
  /\ hasReturnValue(node, FALSE, CallFilter) = JsFalse
  /\ call.result = JsFalse

(***************************************************************************)
(* The syntax tree as a tree: the fields of a node that hold a child and   *)
(* those that hold a list of children.                                     *)
(***************************************************************************)
IsListField(type, f) ==
  \/ f \in {"arguments", "params", "items", "properties", "declarations", "cases"}
  \/ f = "body" /\ type = "BlockStatement"
  \/ f = "consequent" /\ type = "SwitchCase"

IsNodeField(type, f) ==
  \/ f \in {"argument", "test", "alternate", "callee", "object", "property",
            "left", "right", "id", "init", "update", "block", "handler",
            "finalizer", "discriminant", "key"}
  \/ f = "expression" /\ type \notin FunctionTypes
  \/ f = "body" /\ type # "BlockStatement"
  \/ f = "consequent" /\ type # "SwitchCase"
  \/ f = "value" /\ type # "Literal"

\* the function re-binds the name as its first parameter
Shadows(n, name) ==
  /\ n.type \in FunctionTypes
  /\ Len(n.params) >= 1
  /\ n.params[1].type = "Identifier"
  /\ n.params[1].name = name

\* a call of the name with an argument, or a call with the bare name among
\* its arguments
IsResolverUse(n, name) ==
  /\ n.type = "CallExpression"
  /\ \/ n.callee.type = "Identifier" /\ n.callee.name = name /\ Len(n.arguments) >= 1
     \/ \E i \in 1..Len(n.arguments) :
          n.arguments[i].type = "Identifier" /\ n.arguments[i].name = name

\* the tree n holds a use of the name outside every function that shadows it
RECURSIVE UsesResolver(_, _)
UsesResolver(n, name) ==
  /\ ~Shadows(n, name)
  /\ \/ IsResolverUse(n, name)
     \/ \E f \in DOMAIN n :
          \/ IsNodeField(n.type, f) /\ UsesResolver(n[f], name)
          \/ /\ IsListField(n.type, f)
             /\ \E i \in 1..Len(n[f]) : UsesResolver(n[f][i], name)

\* n with the contents of every function that shadows the name removed
RECURSIVE StripShadowed(_, _)
StripShadowed(n, name) ==
  IF Shadows(n, name)
  THEN [n EXCEPT !.body = EmptyBlock, !.expression = FALSE]
  ELSE [f \in DOMAIN n |->
          IF IsNodeField(n.type, f) THEN StripShadowed(n[f], name)
          ELSE IF IsListField(n.type, f)
               THEN [i \in 1..Len(n[f]) |-> StripShadowed(n[f][i], name)]
               ELSE n[f]]

\* the tree holds a function that shadows the name and is not empty
RECURSIVE HasShadowedContents(_, _)
HasShadowedContents(n, name) ==
  \/ Shadows(n, name) /\ n.body # EmptyBlock
  \/ /\ ~Shadows(n, name)
     /\ \E f \in DOMAIN n :
          \/ IsNodeField(n.type, f) /\ HasShadowedContents(n[f], name)
          \/ /\ IsListField(n.type, f)
             /\ \E i \in 1..Len(n[f]) : HasShadowedContents(n[f][i], name)

(***************************************************************************)
(* C2: hasNonEmptyResolverCall(node, resolverName) is true whenever the    *)
(* tree holds, outside every function that shadows resolverName, a call of *)
(* resolverName with an argument or a call with the bare resolverName      *)
(* among its arguments, wherever that call sits in the tree.               *)
(***************************************************************************)
C2_EveryUseIsFound ==
  (call.done /\ call.op = "resolver" /\ UsesResolver(node, ResolverName))
    => call.result = JsTrue

(***************************************************************************)
(* C3: a function whose first parameter is resolverName is excluded from   *)
(* hasNonEmptyResolverCall: the result does not depend on its contents,    *)
(* and it is true only if a use of resolverName exists outside all such    *)
(* functions; a function returning                                         *)
(* new Promise((resolve) => { function inner(resolve) { resolve(1); } })   *)
(* is decided false with anyPromiseAsReturn false.                         *)
(***************************************************************************)
C3_ShadowedSubtreeExcluded ==
  /\ (call.done /\ call.op = "resolver") =>
       /\ call.result =
            JsBool(hasNonEmptyResolverCall(StripShadowed(node, ResolverName),
                                           ResolverName))
       /\ call.result = JsTrue => UsesResolver(node, ResolverName)
  /\ (call.done /\ call.op = "decide" /\ Shadows(node, ResolverName)) =>
       call.result = JsFalse

\* function inner(resolve) { resolve(1); }
InnerShadowing ==
  FunctionLike("FunctionDeclaration", <<Identifier(ResolverName)>>,
    BlockStatement(<<ExpressionStatement(
      CallExpression(Identifier(ResolverName), <<Literal("1")>>))>>), FALSE)

\* the decision on the function returning the promise whose executor holds
\* function inner(resolve) { resolve(1); }
C3_Witness ==
  /\ call.done
  /\ call.op = "decide"
  /\ node = InnerShadowing
  /\ call.result = JsFalse

\* a traversal of a tree that uses the resolver outside a shadowing function
\* and holds a shadowing function that is not empty
C3_WitnessMixed ==
  /\ call.done
  /\ call.op = "resolver"
  /\ HasShadowedContents(node, ResolverName)
  /\ call.result = JsTrue

\* the recorded call was made on a function of a function type whose only
\* return is return new Promise<T>(initializer), with anyPromiseAsReturn false
DecidedReturnedPromise ==
  /\ call.done
  /\ call.op = "decide"
  /\ call.form \in FunctionTypes
  /\ ~call.anyPromiseAsReturn
  /\ isNewPromiseExpression(node)

\* the construction without its type argument
Untyped(prom) == [prom EXCEPT !.typeParameter = Undefined]

(***************************************************************************)
(* C1 as stated: with anyPromiseAsReturn false, a function whose only      *)
(* return is return new Promise<T>(initializer) with T one of              *)
(* TSVoidKeyword, TSUndefinedKeyword, TSNeverKeyword is decided false for  *)
(* every initializer, in both allBranches modes.                           *)
(***************************************************************************)
C1_Original ==
  (DecidedReturnedPromise /\ node.typeParameter \in undefinedKeywords)
    => call.result = JsFalse

(***************************************************************************)
(* C1 amended: with anyPromiseAsReturn false, a function whose only return *)
(* is return new Promise<T>(initializer) is decided false for every        *)
(* initializer, in both allBranches modes, when T is TSVoidKeyword; when T *)
(* is TSUndefinedKeyword or TSNeverKeyword it is decided as the same       *)
(* construction without type argument is, by the initializer's use of its  *)
(* resolver.                                                               *)
(***************************************************************************)
C1_VoidPromise ==
  DecidedReturnedPromise =>
    /\ node.typeParameter = "TSVoidKeyword" => call.result = JsFalse
    /\ node.typeParameter \in {"TSUndefinedKeyword", "TSNeverKeyword"} =>
         /\ call.result =
              hasValueOrExecutorHasNonEmptyResolveValue(
                FunctionOf(call.form, Untyped(node)), FALSE, call.allBranches)
         /\ call.result = JsBool(applyPromiseFilter(Untyped(node), FALSE))

\* the decision on return new Promise<void>(initializer) whose initializer
\* calls its resolver with an argument
C1_Witness ==
  /\ DecidedReturnedPromise
  /\ node.typeParameter = "TSVoidKeyword"
  /\ applyPromiseFilter(Untyped(node), FALSE)
  /\ call.result = JsFalse

\* the decision on () => { return E; } with the flags of the recorded call
BlockBodiedResult ==
  hasValueOrExecutorHasNonEmptyResolveValue(
    FunctionOf("ArrowFunctionExpression", node), call.anyPromiseAsReturn,
    call.allBranches)

\* the recorded call was made on the expression-bodied arrow function () => E
DecidedExpressionArrow ==
  /\ call.done
  /\ call.op = "decide"
  /\ call.form = "expression"

\* E is a promise construction that the two forms decide differently: it
\* has the type argument void and anyPromiseAsReturn is true, or it has not
\* and anyPromiseAsReturn is false and the initializer makes no use of its
\* resolver that hasNonEmptyResolverCall finds
DecidedDifferently ==
  /\ isNewPromiseExpression(node)
  /\ \/ isVoidPromise(node) /\ call.anyPromiseAsReturn
     \/ /\ ~isVoidPromise(node)
        /\ ~call.anyPromiseAsReturn
        /\ ~applyPromiseFilter(node, FALSE)

(***************************************************************************)
(* C10 as stated: for every expression E and every combination of the two  *)
(* flags, the decision on () => E equals the decision on                   *)
(* () => { return E; }.                                                    *)
(***************************************************************************)
C10_Original ==
  DecidedExpressionArrow => call.result = BlockBodiedResult

(***************************************************************************)
(* C10 amended: for every combination of the two flags, the decision on    *)
(* () => E equals the decision on () => { return E; } for every E that is  *)
(* no new Promise(...) construction, and for a construction unless (a) its *)
(* type argument is void and anyPromiseAsReturn is true (() => E is then   *)
(* decided false and the block form true) or (b) its type argument is not  *)
(* void, anyPromiseAsReturn is false and hasNonEmptyResolverCall finds no  *)
(* use of the resolver in the initializer (() => E is then decided true    *)
(* and the block form false).                                              *)
(***************************************************************************)
C10_ExpressionArrow ==
  DecidedExpressionArrow =>
    /\ ~DecidedDifferently => call.result = BlockBodiedResult
    /\ DecidedDifferently =>
         /\ call.result = JsBool(~isVoidPromise(node))
         /\ BlockBodiedResult = JsBool(isVoidPromise(node))

\* the decision on () => new Promise((resolve) => ...) whose initializer calls
\* its resolver with an argument: true in both forms
C10_Witness ==
  /\ DecidedExpressionArrow
  /\ isNewPromiseExpression(node)
  /\ ~isVoidPromise(node)
  /\ ~call.anyPromiseAsReturn
  /\ applyPromiseFilter(node, FALSE)
  /\ call.result = JsTrue
  /\ BlockBodiedResult = JsTrue

=============================================================================
